---- MODULE Spec2Model ----
(***************************************************************************)
(* The process-mode job agents of maro/cli/process/agent/job_agent.py:     *)
(* PendingJobAgent (scheduler), JobTrackingAgent (tracker) and             *)
(* KilledJobAgent (kill processor), three OS processes started by          *)
(* MasterAgent that share nothing but a redis store.  Every redis call and *)
(* every OS call is one atomic step; the steps of the three loops and of   *)
(* the external actors (submitters, kill requests, setting changes,        *)
(* exiting job processes) interleave freely.                               *)
(***************************************************************************)
EXTENDS Integers, Sequences, FiniteSets, TLC

VARIABLES
    pending,      \* redis list ProcessRedisName.PENDING_JOB_TICKETS
    killed,       \* redis list ProcessRedisName.KILLED_JOB_TICKETS
    running,      \* redis hash ProcessRedisName.RUNNING_JOB: job name -> pid_dict
    setting,      \* redis hash ProcessRedisName.SETTING
    alive,        \* OS: the PIDs of the job processes that exist
    signalled,    \* OS: the PIDs whose process group was sent SIGTERM by os.killpg
    nextPid,      \* OS: the next PID handed out
    master,       \* OS: TRUE while the MasterAgent process exists
    p,            \* PendingJobAgent: program counter and locals
    t,            \* JobTrackingAgent: program counter, locals and _shutdown_count
    k,            \* KilledJobAgent: program counter and locals
    env,          \* external actors: what they have done so far
    obs           \* history of what the loops observed, read by the properties only

vars == <<pending, killed, running, setting, alive, signalled, nextPid, master, p, t, k, env, obs>>

----------------------------------------------------------------------------
(* Bounds of the model. *)

\* parallel_level is set by external actors to a value in 1..MaxParallel
MaxParallel == 2
\* external actors append at most this many kill tickets in one run
MaxKillTickets == 1
\* in the faulty environment: the kill tickets external actors append
MaxOpenKillTickets == 2
\* in the open environment: the tickets submitted under a name already used
MaxResubmits == 1

\* the values external actors give parallel_level
ParallelLevels == 1..MaxParallel

(* Program constants. *)

\* the idle cycles after which the tracker closes the agent
ShutdownThreshold == 5

----------------------------------------------------------------------------
(* Data. *)

\* the job names external submitters use
Jobs == {"job1", "job2"}

\* the job names the actors of the open and the faulty environment use
OpenJobs == {"job2", "job3"}

\* a ticket name under which JOB_DETAILS holds nothing
NoDetailsJob == "job0"

\* line 35: hget(JOB_DETAILS, pending_job) is a JobSpec, not None
HasDetails(name) == name \in Jobs \cup OpenJobs

\* JobSpec.components of each job, in the order of the details' mapping:
\* a sequence of <<component_type, num>>; job1 is the driver and two workers
\* of the spec's scenario, job2 and job3 are one worker each
JobComponents(name) ==
    IF name = "job1" THEN << <<"driver", 1>>, <<"worker", 2>> >>
                     ELSE << <<"worker", 1>> >>

\* n copies of x
RECURSIVE Repeat(_, _)
Repeat(x, n) == IF n <= 0 THEN <<>> ELSE <<x>> \o Repeat(x, n - 1)

\* the (component_type, num) iterations of the two nested loops of _start_job,
\* in order: one entry per process to launch
RECURSIVE Instances(_)
Instances(components) ==
    IF components = <<>> THEN <<>>
    ELSE Repeat(Head(components)[1], Head(components)[2]) \o Instances(Tail(components))

\* sum of num over the components
RECURSIVE TotalNum(_)
TotalNum(components) ==
    IF components = <<>> THEN 0
    ELSE Head(components)[2] + TotalNum(Tail(components))

\* defaultdict(list): no key until the first append
EmptyDict == [key \in {} |-> <<>>]

\* pid_dict[key].append(pid) on a defaultdict(list)
DictAppend(d, key, pid) ==
    [x \in DOMAIN d \cup {key} |->
        IF x = key THEN (IF key \in DOMAIN d THEN Append(d[key], pid) ELSE <<pid>>)
        ELSE d[x]]

\* the elements of a sequence
Range(s) == {s[i] : i \in 1..Len(s)}

\* an LREM whose value matches no element
Lrem_NoMatch(list, value) == list

\* redis LREM key 0 value: every occurrence of value leaves the list
RECURSIVE Lrem(_, _)
Lrem(list, value) ==
    IF list = <<>> THEN <<>>
    ELSE IF Head(list) = value THEN Lrem(Tail(list), value)
         ELSE <<Head(list)>> \o Lrem(Tail(list), value)

\* redis HSET key field value
Hset(hash, field, value) ==
    [f \in DOMAIN hash \cup {field} |-> IF f = field THEN value ELSE hash[f]]

\* redis HDEL key field: deleting an absent field changes nothing
Hdel(hash, field) == [f \in DOMAIN hash \ {field} |-> hash[f]]

\* redis HLEN key
Hlen(hash) == Cardinality(DOMAIN hash)

\* redis HEXISTS key field
Hexists(hash, field) == field \in DOMAIN hash

----------------------------------------------------------------------------
(* The history variable obs.  Nothing of the program reads it.             *)
(*   reaped         the records the running pass of _check_job_status met  *)
(*                  with none of their command PIDs existing               *)
(*   eval_idle_run  how many of the tracker's latest cycles that read      *)
(*                  keep_agent_alive unset, in a row, read an empty        *)
(*                  running hash and an empty pending list                 *)
(*   kill_running   the records the running pass of _check_kill_ticket has *)
(*                  read for its kill tickets                              *)
(*   kill_snapshot  the kill tickets the running pass of                   *)
(*                  _check_kill_ticket started from                        *)
(*   kill_pending   the jobs whose pending ticket a kill ticket removed    *)
(*                  while they had no record                               *)
(*   cycle          the running pass of _check_pending_ticket: what it     *)
(*                  started from and what it has admitted                  *)
(*   refused        the running pass of _check_pending_ticket has refused  *)
(*                  a ticket and goes on with the tickets after it         *)
(*   active         between the hlen of line 97 and the llen of line 98:   *)
(*                  the jobs that have been in the pending list or the     *)
(*                  running hash ever since the hlen                       *)
(***************************************************************************)

\* no pass of _check_pending_ticket is followed: none runs, or the one that
\* runs has been disturbed
NoCycle == [on |-> FALSE]

\* a pass of _check_pending_ticket starts with r running jobs, the cap at
\* level and the tickets pend
StartCycle(r, level, pend) ==
    [on |-> TRUE, r |-> r, level |-> level, pend |-> pend, admitted |-> <<>>, kept |-> TRUE]

\* the pass has admitted a job
CycleAdmit(cycle, name) ==
    IF cycle.on THEN [cycle EXCEPT !.admitted = Append(@, name)] ELSE cycle

\* a record was deleted or the cap changed during the pass
CycleDisturbed(cycle, disturbed) == IF disturbed THEN NoCycle ELSE cycle

\* the kill processor removed a pending ticket during the pass
CycleTicketTaken(cycle, taken) ==
    IF cycle.on /\ taken THEN [cycle EXCEPT !.kept = FALSE] ELSE cycle

\* the jobs with a ticket in the pending list or a record in the running hash
ActiveJobs(pend, run) == Range(pend) \cup DOMAIN run

\* the jobs of active that still have a ticket or a record
StillActive(active, pend, run) == active \cap ActiveJobs(pend, run)

\* one more idle cycle, counted up to the threshold
IdleRun(run, idle, threshold) ==
    IF idle THEN (IF run < threshold THEN run + 1 ELSE run) ELSE 0

\* the locals of PendingJobAgent where none is live: between two cycles
\* (pc "lrange"), or once the process has ended (pc "dead": killed with the
\* master's process tree; pc "crashed": an exception left run())
PendingLocals(pc) ==
    [pc |-> pc, pending_jobs |-> <<>>, job |-> "", running_jobs_length |-> 0,
     parallel_level |-> 0, todo |-> <<>>, pid_dict |-> EmptyDict]

\* the locals of JobTrackingAgent outside the for loop of _check_job_status:
\* _shutdown_count, and keep_alive of run(), which is live from line 75 to
\* the next pass of the loop
TrackingLocals(pc, shutdown_count, keep_alive) ==
    [pc |-> pc, running_jobs |-> EmptyDict, job |-> "", shutdown_count |-> shutdown_count,
     keep_alive |-> keep_alive]

\* the locals of KilledJobAgent where none is live
KilledLocals(pc) ==
    [pc |-> pc, killed_job_names |-> <<>>, job |-> "", pid_list |-> EmptyDict]

----------------------------------------------------------------------------
(* The initial state: MasterAgent.start() has started the three processes,  *)
(* the store holds the settings and no ticket.                              *)

Init ==
    /\ pending = <<>>
    /\ killed = <<>>
    /\ running = EmptyDict
    /\ setting \in [parallel_level : ParallelLevels, keep_agent_alive : {0}, agent_status : {1}]
    /\ alive = {}
    /\ signalled = {}
    /\ nextPid = 1
    /\ master = TRUE
    /\ p = PendingLocals("lrange")
    /\ t = TrackingLocals("hgetall", 0, 0)
    /\ k = KilledLocals("lrange")
    /\ env = [submitted |-> {}, kills |-> 0, resubmits |-> 0]
    /\ obs = [reaped |-> {}, eval_idle_run |-> 0,
              kill_running |-> {}, kill_pending |-> {}, cycle |-> NoCycle,
              refused |-> FALSE, active |-> {}, kill_snapshot |-> {}]

----------------------------------------------------------------------------
(* PendingJobAgent. *)

\* the for loop of _check_pending_ticket moves on: the next ticket of the
\* snapshot, or the end of the cycle and time.sleep
PendingNext(pending_jobs) ==
    [PendingLocals(IF pending_jobs = <<>> THEN "lrange" ELSE "hlen")
        EXCEPT !.pending_jobs = pending_jobs]

\* the cap compared with no count of running jobs
CapAllows_IgnoresRunning(parallel_level, running_jobs_length) == parallel_level > 0

\* the comparison of line 40 off by one
CapAllows_OffByOne(parallel_level, running_jobs_length) == parallel_level >= running_jobs_length

\* line 40: the cap is not reached
CapAllows(parallel_level, running_jobs_length) == parallel_level > running_jobs_length

\* line 32: pending_jobs = lrange(PENDING_JOB_TICKETS, 0, -1)
P_Lrange ==
    /\ p.pc = "lrange"
    /\ p' = PendingNext(pending)
    /\ obs' = [obs EXCEPT !.cycle = IF pending = <<>> THEN NoCycle
                                  ELSE StartCycle(Hlen(running), setting.parallel_level, pending)]
    /\ UNCHANGED <<pending, killed, running, setting, alive, signalled, nextPid, master, t, k, env>>

\* lines 34-38: the next pending_job of the snapshot, its job_detail, and
\* running_jobs_length = hlen(RUNNING_JOB); without details hget is None and
\* json.loads(None) a TypeError, which nothing catches
P_Hlen ==
    /\ p.pc = "hlen"
    /\ IF HasDetails(Head(p.pending_jobs))
       THEN /\ p' = [p EXCEPT !.job = Head(p.pending_jobs),
                              !.pending_jobs = Tail(p.pending_jobs),
                              !.running_jobs_length = Hlen(running),
                              !.pc = "level"]
            /\ obs' = obs
       ELSE /\ p' = PendingLocals("crashed")
            /\ obs' = [obs EXCEPT !.cycle = NoCycle, !.refused = FALSE]
    /\ UNCHANGED <<pending, killed, running, setting, alive, signalled, nextPid, master, t, k, env>>

\* lines 39-40: parallel_level = hget(SETTING, "parallel_level") and the
\* comparison; an admitted job enters _start_job with an empty pid_dict
P_Level ==
    /\ p.pc = "level"
    /\ IF CapAllows(setting.parallel_level, p.running_jobs_length)
       THEN p' = [p EXCEPT !.parallel_level = setting.parallel_level,
                           !.running_jobs_length = 0,
                           !.todo = Instances(JobComponents(p.job)),
                           !.pid_dict = EmptyDict,
                           !.pc = "spawn"]
       ELSE p' = PendingNext(p.pending_jobs)
    /\ obs' = [obs EXCEPT !.cycle = IF p'.pc = "lrange" THEN NoCycle ELSE @,
                          !.refused = IF p'.pc = "lrange" THEN FALSE
                                      ELSE IF p'.pc = "hlen" THEN TRUE ELSE @]
    /\ UNCHANGED <<pending, killed, running, setting, alive, signalled, nextPid, master, t, k, env>>

\* the loops of _start_job left one launch early
LaunchesDone_Early(todo) == Len(todo) <= 1

\* lines 47-61: the launches of _start_job are over
LaunchesDone(todo) == todo = <<>>

\* maro.cli.process.utils.details.get_child_pid(proc.pid): the PID of the
\* command the shell started, the process created right after the shell
GetChildPid(shell_pid) == shell_pid + 1

\* lines 55-59: one Popen(command, shell=True) and get_child_pid: the shell
\* and the command it runs are two new processes
P_Spawn ==
    /\ p.pc = "spawn"
    /\ ~LaunchesDone(p.todo)
    /\ alive' = alive \cup {nextPid, GetChildPid(nextPid)}
    /\ nextPid' = GetChildPid(nextPid) + 1
    /\ p' = [p EXCEPT !.todo = Tail(p.todo),
                      !.pid_dict = DictAppend(DictAppend(p.pid_dict, "shell_pids", nextPid),
                                              "command_pids", GetChildPid(nextPid))]
    /\ UNCHANGED <<pending, killed, running, setting, signalled, master, t, k, env, obs>>

\* line 61: hset(RUNNING_JOB, name, json.dumps(pid_dict))
P_Hset ==
    /\ p.pc = "spawn"
    /\ LaunchesDone(p.todo)
    /\ running' = Hset(running, p.job, p.pid_dict)
    /\ p' = [p EXCEPT !.pid_dict = EmptyDict, !.pc = "lrem"]
    /\ obs' = [obs EXCEPT !.cycle = CycleAdmit(@, p.job)]
    /\ UNCHANGED <<pending, killed, setting, alive, signalled, nextPid, master, t, k, env>>

\* line 43: lrem(PENDING_JOB_TICKETS, 0, pending_job)
P_Lrem ==
    /\ p.pc = "lrem"
    /\ pending' = Lrem(pending, p.job)
    /\ p' = PendingNext(p.pending_jobs)
    /\ obs' = [obs EXCEPT !.cycle = IF p'.pc = "lrange" THEN NoCycle ELSE @,
                          !.refused = IF p'.pc = "lrange" THEN FALSE ELSE @,
                          !.active = StillActive(@, pending', running)]
    /\ UNCHANGED <<killed, running, setting, alive, signalled, nextPid, master, t, k, env>>

----------------------------------------------------------------------------
(* JobTrackingAgent. *)

\* the for loop of _check_job_status moves on: the next record of the
\* snapshot, or time.sleep and line 75
TrackingNext(running_jobs, shutdown_count, keep_alive) ==
    [TrackingLocals(IF DOMAIN running_jobs = {} THEN "keep_alive" ELSE "pid_exists",
                    shutdown_count, keep_alive)
        EXCEPT !.running_jobs = running_jobs]

\* the liveness check walking the shells instead of the commands
StillAlive_ShellPids(pid_dict, existing) == \E pid \in Range(pid_dict["shell_pids"]) : pid \in existing

\* lines 85-88: still_alive, psutil.pid_exists over the record's command_pids
StillAlive(pid_dict, existing) == \E pid \in Range(pid_dict["command_pids"]) : pid \in existing

\* maro.cli.process.utils.details.close_by_pid(pids): the processes are ended
CloseByPid(pids, existing) == existing \ Range(pids)

\* the override never honoured
KeepAlive_Ignored(keep_alive) == FALSE

\* line 76: the keep_agent_alive override is set
KeepAlive(keep_alive) == keep_alive # 0

\* the else branch of line 101 lost: the counter is never reset
ShutdownCount_NoReset(shutdown_count, hlen, llen) ==
    IF hlen = 0 /\ llen = 0 THEN shutdown_count + 1 ELSE shutdown_count

\* lines 96-102: the new value of _shutdown_count
ShutdownCount(shutdown_count, hlen, llen) ==
    IF hlen = 0 /\ llen = 0 THEN shutdown_count + 1 ELSE 0

\* line 104: the agent is to be closed
ShutdownDue(shutdown_count) == shutdown_count >= ShutdownThreshold

\* lines 104 and 72: with _shutdown_count updated, the agent is closed or
\* the next cycle starts
TrackingClose(shutdown_count, keep_alive) ==
    TrackingLocals(IF ShutdownDue(shutdown_count) THEN "close_agent" ELSE "hgetall",
                   shutdown_count, keep_alive)

\* line 80: running_jobs = hgetall(RUNNING_JOB)
T_Hgetall ==
    /\ t.pc = "hgetall"
    /\ t' = TrackingNext(running, t.shutdown_count, 0)
    /\ obs' = [obs EXCEPT !.reaped = {}]
    /\ UNCHANGED <<pending, killed, running, setting, alive, signalled, nextPid, master, p, k, env>>

\* lines 82-91: one record of the snapshot (the order of a hash's fields is
\* the store's) and its liveness check
T_PidExists ==
    /\ t.pc = "pid_exists"
    /\ \E running_job \in DOMAIN t.running_jobs :
          /\ IF StillAlive(t.running_jobs[running_job], alive)
             THEN t' = TrackingNext(Hdel(t.running_jobs, running_job), t.shutdown_count, t.keep_alive)
             ELSE t' = [t EXCEPT !.job = running_job, !.pc = "hdel"]
          /\ obs' = [obs EXCEPT !.reaped =
                        IF Range(t.running_jobs[running_job]["command_pids"]) \cap alive = {}
                        THEN @ \cup {[job |-> running_job,
                                      shell_pids |-> t.running_jobs[running_job]["shell_pids"]]}
                        ELSE @]
    /\ UNCHANGED <<pending, killed, running, setting, alive, signalled, nextPid, master, p, k, env>>

\* line 92: hdel(RUNNING_JOB, running_job)
T_Hdel ==
    /\ t.pc = "hdel"
    /\ running' = Hdel(running, t.job)
    /\ t' = [t EXCEPT !.pc = "close_by_pid"]
    /\ obs' = [obs EXCEPT !.cycle = CycleDisturbed(@, Hexists(running, t.job))]
    /\ UNCHANGED <<pending, killed, setting, alive, signalled, nextPid, master, p, k, env>>

\* line 93: close_by_pid(pid_dict["shell_pids"])
T_CloseByPid ==
    /\ t.pc = "close_by_pid"
    /\ alive' = CloseByPid(t.running_jobs[t.job]["shell_pids"], alive)
    /\ t' = TrackingNext(Hdel(t.running_jobs, t.job), t.shutdown_count, t.keep_alive)
    /\ UNCHANGED <<pending, killed, running, setting, signalled, nextPid, master, p, k, env, obs>>

\* lines 74-76: after the sleep, keep_alive = hget(SETTING, "keep_agent_alive")
T_KeepAlive ==
    /\ t.pc = "keep_alive"
    /\ t' = [t EXCEPT !.keep_alive = setting.keep_agent_alive,
                      !.pc = IF KeepAlive(setting.keep_agent_alive) THEN "hgetall" ELSE "hlen"]
    /\ obs' = [obs EXCEPT !.reaped = {}]
    /\ UNCHANGED <<pending, killed, running, setting, alive, signalled, nextPid, master, p, k, env>>

\* line 97: hlen(RUNNING_JOB); a running job ends the condition (and) there
T_Hlen ==
    /\ t.pc = "hlen"
    /\ IF Hlen(running) # 0
       THEN /\ t' = TrackingClose(ShutdownCount(t.shutdown_count, Hlen(running), 0), t.keep_alive)
            /\ obs' = [obs EXCEPT !.eval_idle_run = 0]
       ELSE /\ t' = [t EXCEPT !.pc = "llen"]
            /\ obs' = [obs EXCEPT !.active = ActiveJobs(pending, running)]
    /\ UNCHANGED <<pending, killed, running, setting, alive, signalled, nextPid, master, p, k, env>>

\* lines 98-104: llen(PENDING_JOB_TICKETS), after hlen returned 0
T_Llen ==
    /\ t.pc = "llen"
    /\ t' = TrackingClose(ShutdownCount(t.shutdown_count, 0, Len(pending)), t.keep_alive)
    /\ obs' = [obs EXCEPT !.eval_idle_run = IdleRun(@, Len(pending) = 0, ShutdownThreshold),
                          !.active = {}]
    /\ UNCHANGED <<pending, killed, running, setting, alive, signalled, nextPid, master, p, k, env>>

\* lines 105-108: close_by_pid(pid=agent_pid, recursive=True) ends the
\* MasterAgent process and the processes it started.  The tracker is one of
\* them: the signal ends it before line 111 or after it.
T_CloseAgent ==
    /\ t.pc = "close_agent"
    /\ master' = FALSE
    /\ p' = PendingLocals("dead")
    /\ k' = KilledLocals("dead")
    /\ \E pc \in {"dead", "hset_status"} : t' = [t EXCEPT !.pc = pc]
    /\ obs' = [obs EXCEPT !.cycle = NoCycle, !.refused = FALSE, !.kill_snapshot = {}]
    /\ UNCHANGED <<pending, killed, running, setting, alive, signalled, nextPid, env>>

\* line 111: hset(SETTING, "agent_status", 0), the last step of a tracker
\* that the signal had not ended yet
T_HsetStatus ==
    /\ t.pc = "hset_status"
    /\ setting' = [setting EXCEPT !.agent_status = 0]
    /\ t' = [t EXCEPT !.pc = "dead"]
    /\ UNCHANGED <<pending, killed, running, alive, signalled, nextPid, master, p, k, env, obs>>

----------------------------------------------------------------------------
(* KilledJobAgent. *)

\* the for loop of _check_kill_ticket moves on
KilledNext(killed_job_names) ==
    [KilledLocals(IF killed_job_names = <<>> THEN "lrange" ELSE "hexists")
        EXCEPT !.killed_job_names = killed_job_names]

\* line 140: for pid in pid_list walks the keys of the decoded dict, and
\* line 141 hands the first of them, a str, to os.getpgid: TypeError
GetpgidRaises(pid_list) == DOMAIN pid_list # {}

\* line 127: killed_job_names = lrange(KILLED_JOB_TICKETS, 0, -1)
K_Lrange ==
    /\ k.pc = "lrange"
    /\ k' = KilledNext(killed)
    /\ obs' = [obs EXCEPT !.kill_running = {}, !.kill_snapshot = Range(killed)]
    /\ UNCHANGED <<pending, killed, running, setting, alive, signalled, nextPid, master, p, t, env>>

\* lines 129-130: the next job_name and hexists(RUNNING_JOB, job_name)
K_Hexists ==
    /\ k.pc = "hexists"
    /\ k' = [k EXCEPT !.job = Head(k.killed_job_names),
                      !.killed_job_names = Tail(k.killed_job_names),
                      !.pc = IF Hexists(running, Head(k.killed_job_names))
                             THEN "hget" ELSE "lrem_pending"]
    /\ UNCHANGED <<pending, killed, running, setting, alive, signalled, nextPid, master, p, t, env, obs>>

\* line 131: pid_list = json.loads(hget(RUNNING_JOB, job_name)); hget of a
\* field deleted since line 130 is None, and json.loads(None) a TypeError
K_Hget ==
    /\ k.pc = "hget"
    /\ IF Hexists(running, k.job)
       THEN /\ k' = [k EXCEPT !.pid_list = running[k.job], !.pc = "stop_job"]
            /\ obs' = [obs EXCEPT !.kill_running =
                                      @ \cup {[job |-> k.job, pid_list |-> running[k.job]]}]
       ELSE /\ k' = KilledLocals("crashed")
            /\ obs' = [obs EXCEPT !.kill_snapshot = {}]
    /\ UNCHANGED <<pending, killed, running, setting, alive, signalled, nextPid, master, p, t, env>>

\* lines 138-143: _stop_job
K_StopJob ==
    /\ k.pc = "stop_job"
    /\ IF GetpgidRaises(k.pid_list)
       THEN /\ k' = KilledLocals("crashed")
            /\ running' = running
            /\ obs' = [obs EXCEPT !.kill_snapshot = {}]
       ELSE /\ k' = [k EXCEPT !.pid_list = EmptyDict, !.pc = "lrem_killed"]
            /\ running' = Hdel(running, k.job)
            /\ obs' = [obs EXCEPT !.cycle = CycleDisturbed(@, Hexists(running, k.job)),
                                  !.active = StillActive(@, pending, running')]
    /\ UNCHANGED <<pending, killed, setting, alive, signalled, nextPid, master, p, t, env>>

\* line 134: lrem(PENDING_JOB_TICKETS, 0, job_name)
K_LremPending ==
    /\ k.pc = "lrem_pending"
    /\ pending' = Lrem(pending, k.job)
    /\ k' = [k EXCEPT !.pc = "lrem_killed"]
    /\ obs' = [obs EXCEPT !.cycle = CycleTicketTaken(@, k.job \in Range(pending)),
                          !.kill_pending = IF k.job \in Range(pending) /\ ~Hexists(running, k.job)
                                           THEN @ \cup {k.job} ELSE @,
                          !.active = StillActive(@, pending', running)]
    /\ UNCHANGED <<killed, running, setting, alive, signalled, nextPid, master, p, t, env>>

\* line 136: lrem(KILLED_JOB_TICKETS, 0, job_name)
K_LremKilled ==
    /\ k.pc = "lrem_killed"
    /\ killed' = Lrem(killed, k.job)
    /\ k' = KilledNext(k.killed_job_names)
    /\ obs' = [obs EXCEPT !.kill_snapshot = IF k'.pc = "lrange" THEN {} ELSE @]
    /\ UNCHANGED <<pending, running, setting, alive, signalled, nextPid, master, p, t, env>>

----------------------------------------------------------------------------
(* External actors. *)

\* a submitter appends the ticket of a job whose details it has written;
\* every job name is submitted once
Submit(name) ==
    /\ name \notin env.submitted
    /\ pending' = Append(pending, name)
    /\ env' = [env EXCEPT !.submitted = @ \cup {name}]
    /\ UNCHANGED <<killed, running, setting, alive, signalled, nextPid, master, p, t, k, obs>>

\* an actor appends a kill ticket
RequestKill(name) ==
    /\ env.kills < MaxKillTickets
    /\ killed' = Append(killed, name)
    /\ env' = [env EXCEPT !.kills = @ + 1]
    /\ UNCHANGED <<pending, running, setting, alive, signalled, nextPid, master, p, t, k, obs>>

\* the open environment: a submitter appends a ticket under a name that was
\* submitted before, whatever has become of the earlier ticket
Resubmit(name) ==
    /\ name \in env.submitted
    /\ env.resubmits < MaxResubmits
    /\ pending' = Append(pending, name)
    /\ env' = [env EXCEPT !.resubmits = @ + 1]
    /\ UNCHANGED <<killed, running, setting, alive, signalled, nextPid, master, p, t, k, obs>>

\* the faulty environment: an actor appends a ticket and writes no details
SubmitNoDetails ==
    /\ NoDetailsJob \notin env.submitted
    /\ pending' = Append(pending, NoDetailsJob)
    /\ env' = [env EXCEPT !.submitted = @ \cup {NoDetailsJob}]
    /\ UNCHANGED <<killed, running, setting, alive, signalled, nextPid, master, p, t, k, obs>>

\* the faulty environment: an actor appends a kill ticket
RequestKillOpen(name) ==
    /\ env.kills < MaxOpenKillTickets
    /\ killed' = Append(killed, name)
    /\ env' = [env EXCEPT !.kills = @ + 1]
    /\ UNCHANGED <<pending, running, setting, alive, signalled, nextPid, master, p, t, k, obs>>

\* an actor changes the cap
SetParallelLevel(level) ==
    /\ level # setting.parallel_level
    /\ setting' = [setting EXCEPT !.parallel_level = level]
    /\ obs' = [obs EXCEPT !.cycle = CycleDisturbed(@, TRUE)]
    /\ UNCHANGED <<pending, killed, running, alive, signalled, nextPid, master, p, t, k, env>>

\* an actor sets or clears the keep_agent_alive override
SetKeepAlive(value) ==
    /\ value # setting.keep_agent_alive
    /\ setting' = [setting EXCEPT !.keep_agent_alive = value]
    /\ UNCHANGED <<pending, killed, running, alive, signalled, nextPid, master, p, t, k, env, obs>>

\* the PIDs of commands: _start_job takes a shell's PID and then its child's
IsCommandPid(pid) == pid % 2 = 0

\* the command of a job instance exits
CommandExit(pid) ==
    /\ pid \in alive
    /\ IsCommandPid(pid)
    /\ alive' = alive \ {pid}
    /\ UNCHANGED <<pending, killed, running, setting, signalled, nextPid, master, p, t, k, env, obs>>

----------------------------------------------------------------------------

Next ==
    \/ P_Lrange
    \/ P_Hlen
    \/ P_Level
    \/ P_Spawn
    \/ P_Hset
    \/ P_Lrem
    \/ T_Hgetall
    \/ T_PidExists
    \/ T_Hdel
    \/ T_CloseByPid
    \/ T_KeepAlive
    \/ T_Hlen
    \/ T_Llen
    \/ T_CloseAgent
    \/ T_HsetStatus
    \/ K_Lrange
    \/ K_Hexists
    \/ K_Hget
    \/ K_StopJob
    \/ K_LremPending
    \/ K_LremKilled
    \/ \E name \in Jobs : Submit(name)
    \/ \E name \in Jobs : RequestKill(name)
    \/ \E level \in ParallelLevels : SetParallelLevel(level)
    \/ \E value \in {0, 1} : SetKeepAlive(value)
    \/ \E pid \in alive : CommandExit(pid)

Spec == Init /\ [][Next]_vars

\* PendingJobAgent.run: the steps of the scheduler
PendingJobAgentRun ==
    \/ P_Lrange
    \/ P_Hlen
    \/ P_Level
    \/ P_Spawn
    \/ P_Hset
    \/ P_Lrem

\* JobTrackingAgent.run: the steps of the tracker
JobTrackingAgentRun ==
    \/ T_Hgetall
    \/ T_PidExists
    \/ T_Hdel
    \/ T_CloseByPid
    \/ T_KeepAlive
    \/ T_Hlen
    \/ T_Llen
    \/ T_CloseAgent
    \/ T_HsetStatus

\* KilledJobAgent.run: the steps of the kill processor
KilledJobAgentRun ==
    \/ K_Lrange
    \/ K_Hexists
    \/ K_Hget
    \/ K_StopJob
    \/ K_LremPending
    \/ K_LremKilled

\* the steps of the three loops
Agents ==
    \/ PendingJobAgentRun
    \/ JobTrackingAgentRun
    \/ KilledJobAgentRun

\* The open environment: job names are submitted again while their earlier
\* ticket or record may still be there; the settings stay as they were when
\* the agents started.
NextOpen ==
    \/ Agents
    \/ \E name \in OpenJobs : Submit(name)
    \/ \E name \in OpenJobs : Resubmit(name)
    \/ \E name \in OpenJobs : RequestKill(name)
    \/ \E pid \in alive : CommandExit(pid)

SpecOpen == Init /\ [][NextOpen]_vars

\* The faulty environment: one job, a ticket that comes without details and
\* kill tickets that queue up, for the job and for a name never submitted;
\* the settings stay as they were when the agents started.
NextFaulty ==
    \/ Agents
    \/ Submit("job2")
    \/ SubmitNoDetails
    \/ \E name \in OpenJobs : RequestKillOpen(name)
    \/ \E pid \in alive : CommandExit(pid)

SpecFaulty == Init /\ [][NextFaulty]_vars

\* The fair environment: two jobs, each submitted once, kill tickets for
\* job3 alone, the settings as they were when the agents started.
NextFair ==
    \/ Agents
    \/ \E name \in OpenJobs : Submit(name)
    \/ RequestKill("job3")
    \/ \E pid \in alive : CommandExit(pid)

\* Each loop is a process of its own that sleeps check_interval and runs
\* again (while True, lines 26, 72, 121): none waits for ever with a step
\* to take; and the command of every job instance exits in the end.
SpecFair ==
    /\ Init
    /\ [][NextFair]_vars
    /\ WF_vars(PendingJobAgentRun)
    /\ WF_vars(JobTrackingAgentRun)
    /\ WF_vars(KilledJobAgentRun)
    /\ WF_vars(\E pid \in alive : CommandExit(pid))

----------------------------------------------------------------------------
(* Properties. *)

Min(a, b) == IF a < b THEN a ELSE b
Max(a, b) == IF a > b THEN a ELSE b

\* the tickets of list that are elements of among, in the order of list
Among(list, among) == LET Keep(x) == x \in Range(among) IN SelectSeq(list, Keep)

\* C1: right after the hset of line 61 (the scheduler is at the lrem of line
\* 43), the running hash holds at most as many records as the parallel_level
\* read at line 39 for this admission.
C1_AdmissionWithinCap ==
    p.pc = "lrem" => Hlen(running) <= p.parallel_level

\* the scheduler has just admitted a job with the cap at 1, while the other
\* job waits in the pending list
C1_Witness ==
    /\ p.pc = "lrem"
    /\ p.parallel_level = 1
    /\ Hlen(running) = 1
    /\ Len(pending) = 2

\* C2: a kill ticket whose job has a record when it is processed: the kill
\* loop does not stop, and at the end of the cycle every recorded process
\* was signalled, the record is deleted and the kill ticket removed.
C2_KillRunningJob ==
    \A record \in obs.kill_running :
        /\ k.pc # "crashed"
        /\ k.pc = "lrange" =>
              /\ \A key \in DOMAIN record.pid_list : Range(record.pid_list[key]) \subseteq signalled
              /\ ~Hexists(running, record.job)
              /\ record.job \notin Range(killed)

\* C3: once a kill ticket has removed the pending ticket of a job that had
\* no record, the ticket stays removed, no process is started for the job
\* and no record is written for it.
C3_KilledPendingNeverSpawned ==
    [][\A job \in obs.kill_pending :
          /\ job \notin Range(pending')
          /\ ~(p.job = job /\ nextPid' # nextPid)
          /\ Hexists(running', job) => Hexists(running, job)]_vars

C5_ShutdownWritesStatus ==
    (~master /\ t.pc = "dead") => setting.agent_status = 0

\* C6, as claimed: a tracker cycle that ends with the running hash or the
\* pending list non-empty leaves _shutdown_count at 0, whatever
\* keep_agent_alive is.
C6_AnyBusyCycleResets ==
    [][/\ (t.pc = "keep_alive" /\ t'.pc = "hgetall" /\ (Hlen(running) # 0 \/ Len(pending) # 0))
          => t'.shutdown_count = 0
       /\ (t.pc = "hlen" /\ t'.pc # "hlen" /\ Hlen(running) # 0) => t'.shutdown_count = 0
       /\ (t.pc = "llen" /\ t'.pc # "llen" /\ Len(pending) # 0) => t'.shutdown_count = 0]_vars

\* C6, amended: _shutdown_count never exceeds the number of the latest
\* cycles that read keep_agent_alive unset and, in a row, read both the
\* running hash and the pending list empty: such a cycle that reads one of
\* them non-empty resets it to 0, and the agent is closed only when the
\* latest ShutdownThreshold of them read both empty.
C6_EvaluatedBusyCycleResets ==
    /\ t.shutdown_count <= obs.eval_idle_run
    /\ t.pc = "close_agent" => t.shutdown_count >= ShutdownThreshold

\* the tracker is about to close the agent, after both jobs came and went
C6_Witness ==
    /\ t.pc = "close_agent"
    /\ env.submitted = Jobs

\* C7, as claimed: no job name is in the pending list and in the running
\* hash.
C7_PendingRunningDisjoint ==
    \A job \in Jobs : ~(job \in Range(pending) /\ Hexists(running, job))

\* C7, amended: while the scheduler process lives, a job name is in both
\* only between the hset of line 61 and the lrem of line 43 of its own
\* admission.
C7_DisjointButMidAdmission ==
    \A job \in Jobs :
        (p.pc # "dead" /\ job \in Range(pending) /\ Hexists(running, job))
            => (p.pc = "lrem" /\ p.job = job)

\* the scheduler has written the record and not yet removed the ticket
C7_Witness ==
    /\ p.pc = "lrem"
    /\ p.job \in Range(pending)
    /\ Hexists(running, p.job)

\* C8: a tracker that read keep_agent_alive set at line 75 is back at the
\* start of its loop: it is at none of the lines 96-111, which alone count
\* idle cycles, close the agent and write agent_status.
C8_KeepAliveSuppressesShutdown ==
    t.keep_alive # 0 => t.pc = "hgetall"

\* the tracker has read the override set with four idle cycles counted and
\* nothing pending or running: the agent lives on
C8_Witness ==
    /\ t.keep_alive # 0
    /\ t.shutdown_count = ShutdownThreshold - 1
    /\ Hlen(running) = 0
    /\ Len(pending) = 0
    /\ master
    /\ setting.agent_status = 1

\* the outcome of a scheduler cycle that started with cycle.r running jobs,
\* the cap at cycle.level and the tickets cycle.pend: the first
\* min(k, max(level - r, 0)) tickets admitted, the others still pending in
\* their order
CycleOutcome(cycle, pending_after) ==
    LET admitted == Min(Len(cycle.pend), Max(cycle.level - cycle.r, 0)) IN
    /\ cycle.admitted = SubSeq(cycle.pend, 1, admitted)
    /\ Among(pending_after, cycle.pend) = SubSeq(cycle.pend, admitted + 1, Len(cycle.pend))

\* C9, as claimed: a scheduler cycle during which no record is deleted (and
\* the cap stays the one it started with) ends with that outcome.
C9_CycleAdmitsUpToCap ==
    [][(obs.cycle.on /\ p.pc # "lrange" /\ p'.pc = "lrange")
          => CycleOutcome(obs.cycle, pending')]_vars

\* C9, amended: and during which the kill processor removes no pending
\* ticket.
C9_UndisturbedCycleAdmitsUpToCap ==
    [][(obs.cycle.on /\ obs.cycle.kept /\ p.pc # "lrange" /\ p'.pc = "lrange")
          => CycleOutcome(obs.cycle, pending')]_vars

\* two tickets, the cap at 1, nothing running: the first is admitted and the
\* scheduler is about to refuse the second, the last of its snapshot
C9_Witness ==
    /\ obs.cycle.on
    /\ obs.cycle.kept
    /\ Len(obs.cycle.pend) = 2
    /\ obs.cycle.level = 1
    /\ obs.cycle.r = 0
    /\ Len(obs.cycle.admitted) = 1
    /\ p.pc = "level"
    /\ p.pending_jobs = <<>>
    /\ setting.parallel_level = 1
    /\ Hlen(running) = 1

\* C10: a record in the running hash holds one shell PID and one command
\* PID per instance of the job's components, and no record of a job is in
\* the hash while _start_job is launching its instances.
C10_OneCompleteRecord ==
    /\ \A job \in DOMAIN running :
          /\ DOMAIN running[job] = {"shell_pids", "command_pids"}
          /\ Len(running[job]["shell_pids"]) = TotalNum(JobComponents(job))
          /\ Len(running[job]["command_pids"]) = TotalNum(JobComponents(job))
    /\ p.pc = "spawn" => ~Hexists(running, p.job)

\* job1 (driver 1, worker 2) is admitted: 3 shell PIDs and 3 command PIDs
C10_Witness ==
    /\ Hexists(running, "job1")
    /\ Len(running["job1"]["shell_pids"]) = 3
    /\ Len(running["job1"]["command_pids"]) = 3

\* C11: a record the tracker deletes between the kill processor's hexists of
\* line 130 and its hget of line 131 is a no-op for the kill processor: its
\* next step is no error and its loop goes on.
C11_ConcurrentDeleteIsNoOp ==
    [][(k.pc = "hget" /\ ~Hexists(running, k.job)) => k'.pc # "crashed"]_vars

\* C14: _stop_job on a record whose command processes have all exited
\* already deletes the record and goes on to remove the kill ticket.
C14_SignalToDeadIsNoOp ==
    [][(/\ k.pc = "stop_job"
        /\ Range(k.pid_list["command_pids"]) \cap alive = {}
        /\ k' # k)
          => (k'.pc = "lrem_killed" /\ ~Hexists(running', k.job))]_vars

\* C17: a tracker cycle is counted as idle at the llen of line 98 (and, the
\* fifth in a row, closes the agent) only if no job has had a ticket or a
\* record all the way from the hlen of line 97 to that llen.
C17_IdleCountedOnlyWhenIdle ==
    [][(t.pc = "llen" /\ t'.shutdown_count = t.shutdown_count + 1) => obs.active = {}]_vars

\* C12: in one scheduler cycle, once a ticket has been refused at line 40
\* no ticket after it is admitted.
C12_NoAdmissionAfterRefusal ==
    [][(obs.refused /\ p.pc = "level") => p'.pc # "spawn"]_vars

\* C13: no failure on one job (details or a record that are missing, a
\* signal error) stops a loop: none of the three processes is ended by an
\* exception.
C13_FailureDoesNotStopLoop ==
    /\ p.pc # "crashed"
    /\ t.pc # "crashed"
    /\ k.pc # "crashed"

\* C15: when a pass of _check_kill_ticket is over, no kill ticket it started
\* from whose job was never submitted (no record, no pending ticket) is left
\* in the kill-ticket list; and the steps of the kill processor for a job
\* without record change neither the running hash, nor the settings, nor
\* the pending tickets of other names.
C15_AbsentJobTicketRemoved ==
    [][/\ (k.pc \notin {"lrange", "crashed", "dead"} /\ k'.pc \in {"lrange", "crashed"})
          => \A job \in obs.kill_snapshot :
                job \notin env.submitted => job \notin Range(killed')
       /\ (k.pc \in {"lrem_pending", "lrem_killed"} /\ k' # k)
          => /\ running' = running
             /\ setting' = setting
             /\ Lrem(pending', k.job) = Lrem(pending, k.job)]_vars

\* C16: the record the tracker deletes at line 92 has no command PID that
\* exists, and the shells it ends at line 93 are of no record that has one.
C16_TrackerReapsOnlyDead ==
    [][/\ (t.pc = "hdel" /\ t'.pc = "close_by_pid" /\ Hexists(running, t.job))
          => Range(running[t.job]["command_pids"]) \cap alive = {}
       /\ (t.pc = "close_by_pid" /\ t'.pc # "close_by_pid")
          => \A job \in DOMAIN running :
                Range(running[job]["command_pids"]) \cap alive # {}
                   => Range(running[job]["shell_pids"]) \subseteq alive']_vars

\* the PIDs a record holds
RecordPids(pid_dict) == UNION {Range(pid_dict[key]) : key \in DOMAIN pid_dict}

\* C18: every process the scheduler has spawned that exists and was sent no
\* signal is in a record of the running hash, or is of the job _start_job
\* is launching; the shells the tracker is about to end at line 93, their
\* record deleted at line 92, are left aside.
C18_NoUntrackedProcess ==
    \A pid \in alive \ signalled :
        \/ \E job \in DOMAIN running : pid \in RecordPids(running[job])
        \/ p.pc = "spawn" /\ pid \in RecordPids(p.pid_dict)
        \/ t.pc = "close_by_pid" /\ pid \in Range(t.running_jobs[t.job]["shell_pids"])

\* C19: with the loops fair, the cap constant, every command exiting in the
\* end and no kill ticket for job2, a ticket of job2 in the pending list is
\* admitted in the end: the scheduler removes it (line 43, after the record
\* is written at line 61; nothing else removes it).
C19_PendingTicketAdmitted ==
    ("job2" \in Range(pending)) ~> ("job2" \notin Range(pending))

====
